---- MODULE Spec2Model ----
(***************************************************************************)
(* Model of the two client-side state machines of the X-Auto-DM frontend:  *)
(*   - the OAuth callback page  (src/app/auth/x/callback/page.tsx)          *)
(*   - the campaign creation form (src/app/dm/page.tsx, component Campaigns)*)
(* Strings whose content the code inspects are sequences of one-character  *)
(* strings; opaque strings (messages, tokens) are TLA+ strings.            *)
(***************************************************************************)
EXTENDS Integers, Sequences, FiniteSets, TLC

\* ------------------------------------------------------------------------
\* Bounds of the model
\* ------------------------------------------------------------------------
MaxFlows == 2
MaxRuns == 2
MaxCampaigns == 2
MaxEdits == 5
MaxInFlightEdits == 1

Null == "null"

\* JavaScript truthiness of a string-or-null value
Truthy(x) == x /= Null /\ x /= ""

\* a || b on string-or-null values
OrElse(a, b) == IF Truthy(a) THEN a ELSE b

\* ------------------------------------------------------------------------
\* OAuth callback page
\* ------------------------------------------------------------------------
Pages == {"p1", "p2"}

\* fresh nonces handed out by successive connect initiations
NonceTable == <<"S1", "S2", "S3", "S4">>
VerifierTable == <<"V1", "V2", "V3", "V4">>

UrlCodes == {Null, "c1"}
\* a state parameter is absent, forged, or a token some initiation issued
ForgedState == "forged"
UrlStates(issued) == {Null, ForgedState} \cup {NonceTable[i] : i \in 1..issued}
UrlErrors == {Null, "access_denied"}
UrlErrorDescriptions == {Null, "user denied"}

MsgProcessing == [text |-> "Processing OAuth callback...", arg |-> Null]
MsgOAuthError(detail) == [text |-> "OAuth error: {}. Please try connecting your account again.", arg |-> detail]
MsgMissingParams == [text |-> "Missing OAuth parameters. Please try connecting your account again.", arg |-> Null]
MsgSessionExpired == [text |-> "OAuth session expired. Please try connecting your account again.", arg |-> Null]
MsgInvalidState == [text |-> "Invalid state parameter. Please try connecting your account again.", arg |-> Null]
MsgConnected == [text |-> "Successfully connected @{}!", arg |-> "screen_name"]
MsgExchangeFailed(err) == [text |-> OrElse(err, "Failed to connect account. Please try again."), arg |-> Null]
MsgUnexpected == [text |-> "An unexpected error occurred. Please try again.", arg |-> Null]
PopupMissingParams == "Missing authorization code or state"

Origin == "https://app.example"

EmptyStorage == [x_oauth_state |-> Null, x_oauth_code_verifier |-> Null]

InitialPage == [loaded |-> FALSE, code |-> Null, state |-> Null, error |-> Null,
                error_description |-> Null, opener |-> FALSE,
                status |-> "processing", message |-> MsgProcessing,
                runs |-> 0, pending |-> 0, closed |-> FALSE,
                redirectTimers |-> 0, location |-> "callback",
                storageReads |-> 0, storageWrites |-> 0]

VARIABLES sessionStorage, flows, page, posted, exchangeCalls

oauthVars == <<sessionStorage, flows, page, posted, exchangeCalls>>

OAuthInitial ==
    /\ sessionStorage = EmptyStorage
    /\ flows = 0
    /\ page = [p \in Pages |-> InitialPage]
    /\ posted = <<>>
    /\ exchangeCalls = <<>>

\* The connect button stores a fresh state token and code verifier.
InitiateConnect ==
    /\ flows < MaxFlows
    /\ flows' = flows + 1
    /\ sessionStorage' = [x_oauth_state |-> NonceTable[flows + 1],
                          x_oauth_code_verifier |-> VerifierTable[flows + 1]]
    /\ UNCHANGED <<page, posted, exchangeCalls>>

\* The provider (or anyone) navigates a window to the callback URL.
LoadCallback(p, code, state, error, desc, opener) ==
    /\ ~page[p].loaded
    /\ page' = [page EXCEPT ![p] = [InitialPage EXCEPT !.loaded = TRUE, !.code = code,
                                      !.state = state, !.error = error,
                                      !.error_description = desc, !.opener = opener]]
    /\ UNCHANGED <<sessionStorage, flows, posted, exchangeCalls>>

\* PopupMessage that tests code and state before the error parameter
PopupMessage_CodeFirst(pg) ==
    IF Truthy(pg.code) /\ Truthy(pg.state)
    THEN [type |-> "oauth-callback", error |-> Null, code |-> pg.code, state |-> pg.state]
    ELSE IF Truthy(pg.error)
    THEN [type |-> "oauth-callback", error |-> OrElse(pg.error_description, pg.error),
          code |-> Null, state |-> Null]
    ELSE [type |-> "oauth-callback", error |-> PopupMissingParams, code |-> Null, state |-> Null]

\* message relayed to the opener in popup mode
PopupMessage(pg) ==
    IF Truthy(pg.error)
    THEN [type |-> "oauth-callback", error |-> OrElse(pg.error_description, pg.error),
          code |-> Null, state |-> Null]
    ELSE IF Truthy(pg.code) /\ Truthy(pg.state)
    THEN [type |-> "oauth-callback", error |-> Null, code |-> pg.code, state |-> pg.state]
    ELSE [type |-> "oauth-callback", error |-> PopupMissingParams, code |-> Null, state |-> Null]

\* sessionStorage.removeItem of both secrets
RemoveSecrets(st) == [st EXCEPT !.x_oauth_state = Null, !.x_oauth_code_verifier = Null]

\* CallbackBranch without the comparison of the URL state with the stored token
CallbackBranch_NoStateCheck(pg, st) ==
    IF pg.opener THEN "popup"
    ELSE IF Truthy(pg.error) THEN "oauth_error"
    ELSE IF ~Truthy(pg.code) \/ ~Truthy(pg.state) THEN "missing_params"
    ELSE IF ~Truthy(st.x_oauth_state) \/ ~Truthy(st.x_oauth_code_verifier) THEN "session_expired"
    ELSE "exchange"

\* CallbackBranch where a popup relays only errors and handles a code itself
CallbackBranch_PopupErrorsOnly(pg, st) ==
    IF pg.opener /\ (Truthy(pg.error) \/ ~Truthy(pg.code) \/ ~Truthy(pg.state)) THEN "popup"
    ELSE IF Truthy(pg.error) THEN "oauth_error"
    ELSE IF ~Truthy(pg.code) \/ ~Truthy(pg.state) THEN "missing_params"
    ELSE IF ~Truthy(st.x_oauth_state) \/ ~Truthy(st.x_oauth_code_verifier) THEN "session_expired"
    ELSE IF pg.state /= st.x_oauth_state THEN "invalid_state"
    ELSE "exchange"

\* CallbackBranch with the state comparison inverted (=== for !==)
CallbackBranch_InvertedStateCheck(pg, st) ==
    IF pg.opener THEN "popup"
    ELSE IF Truthy(pg.error) THEN "oauth_error"
    ELSE IF ~Truthy(pg.code) \/ ~Truthy(pg.state) THEN "missing_params"
    ELSE IF ~Truthy(st.x_oauth_state) \/ ~Truthy(st.x_oauth_code_verifier) THEN "session_expired"
    ELSE IF pg.state = st.x_oauth_state THEN "invalid_state"
    ELSE "exchange"

\* CallbackBranch without the test of the error parameter on the non-popup path
CallbackBranch_IgnoresErrorParam(pg, st) ==
    IF pg.opener THEN "popup"
    ELSE IF ~Truthy(pg.code) \/ ~Truthy(pg.state) THEN "missing_params"
    ELSE IF ~Truthy(st.x_oauth_state) \/ ~Truthy(st.x_oauth_code_verifier) THEN "session_expired"
    ELSE IF pg.state /= st.x_oauth_state THEN "invalid_state"
    ELSE "exchange"

\* The branch handleCallback takes, in the order the code tests them.
CallbackBranch(pg, st) ==
    IF pg.opener THEN "popup"
    ELSE IF Truthy(pg.error) THEN "oauth_error"
    ELSE IF ~Truthy(pg.code) \/ ~Truthy(pg.state) THEN "missing_params"
    ELSE IF ~Truthy(st.x_oauth_state) \/ ~Truthy(st.x_oauth_code_verifier) THEN "session_expired"
    ELSE IF pg.state /= st.x_oauth_state THEN "invalid_state"
    ELSE "exchange"

\* StorageAfter without the two removeItem calls
StorageAfter_KeepsSecrets(branch, st) == st

\* StorageAfter with the removeItem calls moved before the state comparison
StorageAfter_RemovesOnMismatch(branch, st) ==
    IF branch \in {"exchange", "invalid_state"} THEN RemoveSecrets(st) ELSE st

\* StorageAfter that also clears the secrets when the provider reports an error
StorageAfter_RemovesOnError(branch, st) ==
    IF branch \in {"exchange", "oauth_error"} THEN RemoveSecrets(st) ELSE st

\* what each branch does to sessionStorage before the run returns or awaits
StorageAfter(branch, st) ==
    IF branch = "exchange" THEN RemoveSecrets(st) ELSE st

\* The synchronous part of handleCallback: from the start of the effect to
\* its first return or to the await of the exchange call.
HandleCallback(p) ==
    LET pg == page[p]
        branch == CallbackBranch(pg, sessionStorage)
        ran == [pg EXCEPT !.runs = @ + 1]
        read == [ran EXCEPT !.storageReads = @ + 1]
    IN
    /\ pg.loaded /\ ~pg.closed /\ pg.location = "callback"
    /\ pg.runs < MaxRuns
    /\ sessionStorage' = StorageAfter(branch, sessionStorage)
    /\ posted' = IF branch = "popup"
                 THEN Append(posted, [from |-> p, msg |-> PopupMessage(pg), targetOrigin |-> Origin])
                 ELSE posted
    /\ exchangeCalls' = IF branch = "exchange"
                        THEN Append(exchangeCalls, [from |-> p, code |-> pg.code,
                                   code_verifier |-> sessionStorage.x_oauth_code_verifier,
                                   state |-> pg.state])
                        ELSE exchangeCalls
    /\ page' = [page EXCEPT ![p] =
          CASE branch = "popup" -> [ran EXCEPT !.closed = TRUE]
            [] branch = "oauth_error" ->
                  [ran EXCEPT !.status = "error",
                              !.message = MsgOAuthError(OrElse(pg.error_description, pg.error))]
            [] branch = "missing_params" -> [ran EXCEPT !.status = "error", !.message = MsgMissingParams]
            [] branch = "session_expired" -> [read EXCEPT !.status = "error", !.message = MsgSessionExpired]
            [] branch = "invalid_state" -> [read EXCEPT !.status = "error", !.message = MsgInvalidState]
            [] OTHER -> [read EXCEPT !.pending = @ + 1,
                                     !.storageWrites = IF StorageAfter(branch, sessionStorage) = sessionStorage
                                                       THEN @ ELSE @ + 1]]
    /\ UNCHANGED flows

ExchangeOutcomes == {"success", "failure", "failure_with_error", "throw"}

\* ExchangeResolves that schedules the redirect on a failure response too
ExchangeResolves_RedirectsOnFailure(p, outcome) ==
    LET pg == page[p]
        done == [pg EXCEPT !.pending = @ - 1, !.redirectTimers = @ + 1]
    IN
    /\ pg.pending > 0
    /\ page' = [page EXCEPT ![p] =
           CASE outcome = "success" ->
                    [done EXCEPT !.status = "success", !.message = MsgConnected]
             [] outcome = "failure" ->
                    [done EXCEPT !.status = "error", !.message = MsgExchangeFailed(Null)]
             [] outcome = "failure_with_error" ->
                    [done EXCEPT !.status = "error", !.message = MsgExchangeFailed("Invalid OAuth state")]
             [] OTHER ->
                    [done EXCEPT !.status = "error", !.message = MsgUnexpected]]
    /\ UNCHANGED <<sessionStorage, flows, posted, exchangeCalls>>

\* The continuation of handleCallback after `await api.exchangeXOAuthCode`.
ExchangeResolves(p, outcome) ==
    LET pg == page[p]
        done == [pg EXCEPT !.pending = @ - 1]
    IN
    /\ pg.pending > 0
    /\ page' = [page EXCEPT ![p] =
           CASE outcome = "success" ->
                    [done EXCEPT !.status = "success", !.message = MsgConnected, !.redirectTimers = @ + 1]
             [] outcome = "failure" ->
                    [done EXCEPT !.status = "error", !.message = MsgExchangeFailed(Null)]
             [] outcome = "failure_with_error" ->
                    [done EXCEPT !.status = "error", !.message = MsgExchangeFailed("Invalid OAuth state")]
             [] OTHER ->
                    [done EXCEPT !.status = "error", !.message = MsgUnexpected]]
    /\ UNCHANGED <<sessionStorage, flows, posted, exchangeCalls>>

\* setTimeout(() => router.push('/accounts'), 2000)
RedirectTimerFires(p) ==
    /\ page[p].redirectTimers > 0
    /\ page' = [page EXCEPT ![p].redirectTimers = @ - 1, ![p].location = "accounts"]
    /\ UNCHANGED <<sessionStorage, flows, posted, exchangeCalls>>

\* the "Back to Accounts" button, rendered only in the error status
HandleRetry(p) ==
    /\ page[p].loaded /\ ~page[p].closed
    /\ page[p].status = "error" /\ page[p].location = "callback"
    /\ page' = [page EXCEPT ![p].location = "accounts"]
    /\ UNCHANGED <<sessionStorage, flows, posted, exchangeCalls>>

OAuthNext ==
    \/ InitiateConnect
    \/ \E p \in Pages, code \in UrlCodes, state \in UrlStates(flows), error \in UrlErrors,
          desc \in UrlErrorDescriptions, opener \in BOOLEAN :
          LoadCallback(p, code, state, error, desc, opener)
    \/ \E p \in Pages : HandleCallback(p)
    \/ \E p \in Pages, outcome \in ExchangeOutcomes : ExchangeResolves(p, outcome)
    \/ \E p \in Pages : RedirectTimerFires(p)
    \/ \E p \in Pages : HandleRetry(p)


\* ------------------------------------------------------------------------
\* Campaign creation form (component Campaigns)
\* ------------------------------------------------------------------------
Str(n, c) == [i \in 1..n |-> c]

\* String.prototype.trim on a sequence of characters
Trim(s) ==
    LET nonBlank == {i \in 1..Len(s) : s[i] /= " "}
    IN IF nonBlank = {} THEN <<>>
       ELSE LET first == CHOOSE i \in nonBlank : \A j \in nonBlank : i <= j
                last == CHOOSE i \in nonBlank : \A j \in nonBlank : i >= j
            IN SubSeq(s, first, last)

Includes(s, c) == \E i \in 1..Len(s) : s[i] = c

Letters == {"a", "b", "c", "d", "e", "f", "g", "h", "i", "j", "k", "l", "m", "n", "o", "p",
            "q", "r", "s", "t", "u", "v", "w", "x", "y", "z",
            "A", "B", "C", "D", "E", "F", "G", "H", "I", "J", "K", "L", "M", "N", "O", "P",
            "Q", "R", "S", "T", "U", "V", "W", "X", "Y", "Z"}
Digits == {"0", "1", "2", "3", "4", "5", "6", "7", "8", "9"}

\* /^[a-zA-Z0-9_]+$/.test(s)
MatchesWord(s) == Len(s) >= 1 /\ \A i \in 1..Len(s) : s[i] \in Letters \cup Digits \cup {"_"}

\* /^\d+$/.test(s)
MatchesDigits(s) == Len(s) >= 1 /\ \A i \in 1..Len(s) : s[i] \in Digits

MaxUsernameLen == 15
MinTemplateLen == 10
MaxTemplateLen == 280
MaxCsvBytes == 10 * 1024 * 1024

\* validateUsername without the length test
validateUsername_NoLengthCheck(username) ==
    IF Trim(username) = <<>> THEN "Username is required"
    ELSE IF Includes(username, "@") THEN "Enter username without @ symbol"
    ELSE IF ~MatchesWord(username) THEN "Username can only contain letters, numbers, and underscores"
    ELSE Null

validateUsername(username) ==
    IF Trim(username) = <<>> THEN "Username is required"
    ELSE IF Includes(username, "@") THEN "Enter username without @ symbol"
    ELSE IF Len(username) < 1 \/ Len(username) > MaxUsernameLen THEN "Username must be 1-15 characters"
    ELSE IF ~MatchesWord(username) THEN "Username can only contain letters, numbers, and underscores"
    ELSE Null

\* validateListId without the numeric test
validateListId_NoNumericCheck(listId) ==
    IF Trim(listId) = <<>> THEN "List ID is required"
    ELSE Null

validateListId(listId) ==
    IF Trim(listId) = <<>> THEN "List ID is required"
    ELSE IF ~MatchesDigits(listId) THEN "List ID must be numeric"
    ELSE Null

\* validateTemplate with the upper limit tested by >= instead of >
validateTemplate_OffByOne(template) ==
    IF Trim(template) = <<>> THEN "Message template is required"
    ELSE IF Len(template) >= MaxTemplateLen THEN "Message template must be 280 characters or less"
    ELSE IF Len(template) < MinTemplateLen THEN "Message template should be at least 10 characters"
    ELSE Null

validateTemplate(template) ==
    IF Trim(template) = <<>> THEN "Message template is required"
    ELSE IF Len(template) > MaxTemplateLen THEN "Message template must be 280 characters or less"
    ELSE IF Len(template) < MinTemplateLen THEN "Message template should be at least 10 characters"
    ELSE Null

ErrorFields == {"name", "sender_account_id", "message_template", "target_identifier", "csv_file"}

NoErrors == [f \in ErrorFields |-> Null]

\* FormErrors without the check of sender_account_id
FormErrors_NoSenderCheck(nc, file) ==
    [f \in ErrorFields |->
        CASE f = "name" -> IF Trim(nc.name) = <<>> THEN "Campaign name is required" ELSE Null
          [] f = "sender_account_id" -> Null
          [] f = "message_template" -> validateTemplate(nc.message_template)
          [] f = "target_identifier" ->
                IF nc.target_type = "user_followers" THEN validateUsername(nc.target_identifier)
                ELSE IF nc.target_type = "list_members" THEN validateListId(nc.target_identifier)
                ELSE Null
          [] OTHER ->
                IF nc.target_type = "csv_upload" /\ file = <<>> THEN "Please select a CSV file" ELSE Null]

\* the `errors` object validateForm builds for a draft and an attached file
FormErrors(nc, file) ==
    [f \in ErrorFields |->
        CASE f = "name" -> IF Trim(nc.name) = <<>> THEN "Campaign name is required" ELSE Null
          [] f = "sender_account_id" -> IF nc.sender_account_id = 0 THEN "Please select an X account" ELSE Null
          [] f = "message_template" -> validateTemplate(nc.message_template)
          [] f = "target_identifier" ->
                IF nc.target_type = "user_followers" THEN validateUsername(nc.target_identifier)
                ELSE IF nc.target_type = "list_members" THEN validateListId(nc.target_identifier)
                ELSE Null
          [] OTHER ->
                IF nc.target_type = "csv_upload" /\ file = <<>> THEN "Please select a CSV file" ELSE Null]

\* NoKeys with the comparison `>= 0`
NoKeys_AlwaysTrue(errors) == \A f \in ErrorFields : errors[f] = Null \/ errors[f] /= Null

\* Object.keys(errors).length === 0
NoKeys(errors) == \A f \in ErrorFields : errors[f] = Null

DefaultCampaign ==
    [name |-> <<>>, description |-> "", target_type |-> "user_followers",
     target_identifier |-> <<>>, verified_only |-> FALSE, message_template |-> <<>>,
     sender_account_id |-> 0, daily_limit |-> 50]

\* values the user types or picks
Names == {<<>>, <<"Q">>}
Descriptions == {"", "d"}
TargetTypes == {"user_followers", "list_members", "csv_upload"}
TargetIdentifiers == {<<>>, <<"e", "l", "o", "n", "m", "u", "s", "k">>, <<"1", "2", "3", "4", "5">>}
Templates == {<<>>, Str(MinTemplateLen, "x")}
SenderIds == {7}
DailyLimits == {25, 50}

\* files offered by the file picker or dropped on the drop area
Files ==
    {[type |-> "text/csv", csvName |-> FALSE, size |-> 1024],
     [type |-> "application/pdf", csvName |-> FALSE, size |-> 1024],
     [type |-> "", csvName |-> TRUE, size |-> MaxCsvBytes],
     [type |-> "text/csv", csvName |-> TRUE, size |-> MaxCsvBytes + 1]}
MaxDropFiles == 2
DropLists == UNION {[1..n -> Files] : n \in 0..MaxDropFiles}

\* file.type === 'text/csv' || file.name.endsWith('.csv')
IsCsv(file) == file.type = "text/csv" \/ file.csvName

CampaignIds == 1..MaxCampaigns

IdleFlow == [pc |-> "idle", campaign |-> DefaultCampaign, file |-> <<>>, id |-> 0]

VARIABLES newCampaign, csvFile, validationErrors, error, isCreating, csvUploading,
          scrapingProgress, intervals, loading, campaigns, flow, calls, backend,
          pendingLoads, toasts, created, edits, inFlightEdits

campaignVars == <<newCampaign, csvFile, validationErrors, error, isCreating, csvUploading,
                  scrapingProgress, intervals, loading, campaigns, flow, calls, backend,
                  pendingLoads, toasts, created, edits, inFlightEdits>>

CampaignInitial ==
    /\ newCampaign = DefaultCampaign
    /\ csvFile = <<>>
    /\ validationErrors = NoErrors
    /\ error = Null
    /\ isCreating = FALSE
    /\ csvUploading = FALSE
    /\ scrapingProgress = <<>>
    /\ intervals = {}
    /\ loading = TRUE
    /\ campaigns = {}
    /\ flow = IdleFlow
    /\ calls = <<>>
    /\ backend = {}
    /\ pendingLoads = 1
    /\ toasts = {}
    /\ created = {}
    /\ edits = 0
    /\ inFlightEdits = 0


\* setValidationErrors(prev => ({ ...prev, [field]: '' })) guarded by
\* `if (validationErrors[field])`, as in the inputs' onChange handlers
ClearIfSet(errors, field) ==
    IF Truthy(errors[field]) THEN [errors EXCEPT ![field] = ""] ELSE errors

formFrame == <<isCreating, csvUploading, scrapingProgress, intervals, loading, campaigns,
               flow, calls, backend, pendingLoads, toasts, created, error>>

\* the form is rendered only when the page is not showing its loader
FormRendered == ~loading

SetName(v) ==
    /\ FormRendered
    /\ newCampaign' = [newCampaign EXCEPT !.name = v]
    /\ validationErrors' = ClearIfSet(validationErrors, "name")
    /\ UNCHANGED <<csvFile, formFrame>>

SetSenderAccount(v) ==
    /\ FormRendered
    /\ newCampaign' = [newCampaign EXCEPT !.sender_account_id = v]
    /\ validationErrors' = ClearIfSet(validationErrors, "sender_account_id")
    /\ UNCHANGED <<csvFile, formFrame>>

SetDescription(v) ==
    /\ FormRendered
    /\ newCampaign' = [newCampaign EXCEPT !.description = v]
    /\ UNCHANGED <<csvFile, validationErrors, formFrame>>

SetTargetType(t) ==
    /\ FormRendered
    /\ newCampaign' = [newCampaign EXCEPT !.target_type = t, !.target_identifier = <<>>]
    /\ UNCHANGED <<csvFile, validationErrors, formFrame>>

SetTargetIdentifier(v) ==
    /\ FormRendered
    /\ newCampaign.target_type \in {"user_followers", "list_members"}
    /\ newCampaign' = [newCampaign EXCEPT !.target_identifier = v]
    /\ validationErrors' = ClearIfSet(validationErrors, "target_identifier")
    /\ UNCHANGED <<csvFile, formFrame>>

SetVerifiedOnly(b) ==
    /\ FormRendered
    /\ newCampaign.target_type = "user_followers"
    /\ newCampaign' = [newCampaign EXCEPT !.verified_only = b]
    /\ UNCHANGED <<csvFile, validationErrors, formFrame>>

SetTemplate(v) ==
    /\ FormRendered
    /\ newCampaign' = [newCampaign EXCEPT !.message_template = v]
    /\ validationErrors' = ClearIfSet(validationErrors, "message_template")
    /\ UNCHANGED <<csvFile, formFrame>>

SetDailyLimit(v) ==
    /\ FormRendered
    /\ newCampaign' = [newCampaign EXCEPT !.daily_limit = v]
    /\ UNCHANGED <<csvFile, validationErrors, formFrame>>

\* onChange of the hidden file input; `picked` is event.target.files
handleFileUpload(picked) ==
    /\ FormRendered
    /\ newCampaign.target_type = "csv_upload"
    /\ IF picked = <<>>
       THEN UNCHANGED <<csvFile, validationErrors>>
       ELSE LET file == picked[1] IN
            IF IsCsv(file)
            THEN IF file.size > MaxCsvBytes
                 THEN /\ validationErrors' = [validationErrors EXCEPT !["csv_file"] = "File size must be less than 10MB"]
                      /\ UNCHANGED csvFile
                 ELSE /\ csvFile' = <<file>>
                      /\ validationErrors' = [validationErrors EXCEPT !["csv_file"] = ""]
            ELSE /\ validationErrors' = [validationErrors EXCEPT !["csv_file"] = "Please select a valid CSV file"]
                 /\ UNCHANGED csvFile
    /\ UNCHANGED <<newCampaign, formFrame>>

\* files.find(file => file.type === 'text/csv' || file.name.endsWith('.csv'))
FindCsv(files) ==
    LET hits == {i \in 1..Len(files) : IsCsv(files[i])}
    IN IF hits = {} THEN <<>>
       ELSE <<files[CHOOSE i \in hits : \A j \in hits : i <= j]>>

\* onDrop of the drop area; `files` is e.dataTransfer.files
handleDrop(files) ==
    /\ FormRendered
    /\ newCampaign.target_type = "csv_upload"
    /\ IF FindCsv(files) /= <<>>
       THEN /\ csvFile' = FindCsv(files)
            /\ validationErrors' = [validationErrors EXCEPT !["csv_file"] = ""]
       ELSE /\ validationErrors' = [validationErrors EXCEPT !["csv_file"] = "Please drop a valid CSV file"]
            /\ UNCHANGED csvFile
    /\ UNCHANGED <<newCampaign, formFrame>>

removeCsvFile ==
    /\ FormRendered
    /\ newCampaign.target_type = "csv_upload"
    /\ csvFile /= <<>>
    /\ csvFile' = <<>>
    /\ UNCHANGED <<newCampaign, validationErrors, formFrame>>

\* ------------------------------------------------------------------------
\* createCampaign and the handlers it awaits, as transformers of the
\* component state S (a record of the variables in campaignVars)
\* ------------------------------------------------------------------------
Cur ==
    [newCampaign |-> newCampaign, csvFile |-> csvFile, validationErrors |-> validationErrors,
     error |-> error, isCreating |-> isCreating, csvUploading |-> csvUploading,
     scrapingProgress |-> scrapingProgress, intervals |-> intervals, loading |-> loading,
     campaigns |-> campaigns, flow |-> flow, calls |-> calls, backend |-> backend,
     pendingLoads |-> pendingLoads, toasts |-> toasts, created |-> created]

Becomes(S) ==
    /\ newCampaign' = S.newCampaign
    /\ csvFile' = S.csvFile
    /\ validationErrors' = S.validationErrors
    /\ error' = S.error
    /\ isCreating' = S.isCreating
    /\ csvUploading' = S.csvUploading
    /\ scrapingProgress' = S.scrapingProgress
    /\ intervals' = S.intervals
    /\ loading' = S.loading
    /\ campaigns' = S.campaigns
    /\ flow' = S.flow
    /\ calls' = S.calls
    /\ backend' = S.backend
    /\ pendingLoads' = S.pendingLoads
    /\ toasts' = S.toasts
    /\ created' = S.created

\* { ...prev, [campaignId]: entry }
WithProgress(sp, id, entry) ==
    [x \in DOMAIN sp \cup {id} |-> IF x = id THEN entry ELSE sp[x]]

\* resetForm without setValidationErrors({})
resetForm_KeepsErrors(S) ==
    [S EXCEPT !.newCampaign = DefaultCampaign, !.csvFile = <<>>, !.error = Null]

resetForm(S) ==
    [S EXCEPT !.newCampaign = DefaultCampaign, !.csvFile = <<>>,
              !.validationErrors = NoErrors, !.error = Null]

\* loadCampaigns up to its await: setLoading(true) and the getCampaigns request
loadCampaigns(S) ==
    [S EXCEPT !.loading = TRUE, !.pendingLoads = @ + 1]

\* handleCSVUpload up to its await
handleCSVUpload(S, campaignId) ==
    IF S.flow.file = <<>> THEN S
    ELSE [S EXCEPT !.csvUploading = TRUE,
                   !.calls = Append(@, [op |-> "uploadCSV", id |-> campaignId,
                                        campaign |-> S.flow.campaign, file |-> S.flow.file]),
                   !.flow = [@ EXCEPT !.pc = "csv"]]

\* handleFollowerScraping without the initial progress entry
handleFollowerScraping_NoEntry(S, campaignId) ==
    [S EXCEPT !.intervals = @ \cup {[id |-> campaignId, kind |-> "followers"]},
              !.calls = Append(@, [op |-> "scrapeFollowers", id |-> campaignId,
                                   campaign |-> S.flow.campaign, file |-> <<>>]),
              !.flow = [@ EXCEPT !.pc = "followers"]]

\* handleFollowerScraping up to its await
handleFollowerScraping(S, campaignId) ==
    [S EXCEPT !.scrapingProgress = WithProgress(@, campaignId,
                        [progress |-> 10, status |-> "Starting follower scraping..."]),
              !.intervals = @ \cup {[id |-> campaignId, kind |-> "followers"]},
              !.calls = Append(@, [op |-> "scrapeFollowers", id |-> campaignId,
                                   campaign |-> S.flow.campaign, file |-> <<>>]),
              !.flow = [@ EXCEPT !.pc = "followers"]]

\* handleListMemberScraping up to its await
handleListMemberScraping(S, campaignId) ==
    [S EXCEPT !.scrapingProgress = WithProgress(@, campaignId,
                        [progress |-> 10, status |-> "Starting list member scraping..."]),
              !.intervals = @ \cup {[id |-> campaignId, kind |-> "list"]},
              !.calls = Append(@, [op |-> "scrapeListMembers", id |-> campaignId,
                                   campaign |-> S.flow.campaign, file |-> <<>>]),
              !.flow = [@ EXCEPT !.pc = "list"]]

\* the end of createCampaign's `if (response)` block and its finally
FinishCreate(S) ==
    [loadCampaigns(resetForm(S)) EXCEPT !.isCreating = FALSE, !.flow = IdleFlow]

\* withCampaignToast / withFileUploadToast on a request that fails: the
\* failure is shown as a toast for `operation` and the caller gets no result
withToastFailure(S, operation) == [S EXCEPT !.toasts = @ \cup {operation}]

\* the conditions of the three `if` statements after a successful create,
\* on the draft `c` and file the createCampaign closure captured
WantsCSVUpload(c, file) == file /= <<>> /\ c.target_type = "csv_upload"

\* WantsFollowerScraping without the test of target_type
WantsFollowerScraping_AnyType(c) == c.target_identifier /= <<>>

WantsFollowerScraping(c) == c.target_type = "user_followers" /\ c.target_identifier /= <<>>

WantsListMemberScraping(c) == c.target_type = "list_members" /\ c.target_identifier /= <<>>

\* The three `if` statements after a successful create, entered at the
\* `stage`-th one; runs until a handler awaits or the block ends.
RECURSIVE ContinueCreate(_, _)
ContinueCreate(S, stage) ==
    LET c == S.flow.campaign
        id == S.flow.id
    IN
    IF stage = 1
    THEN IF WantsCSVUpload(c, S.flow.file)
         THEN LET T == handleCSVUpload(S, id)
              IN IF T.flow.pc = "csv" THEN T ELSE ContinueCreate(T, 2)
         ELSE ContinueCreate(S, 2)
    ELSE IF stage = 2
    THEN IF WantsFollowerScraping(c)
         THEN handleFollowerScraping(S, id)
         ELSE ContinueCreate(S, 3)
    ELSE IF stage = 3
    THEN IF WantsListMemberScraping(c)
         THEN handleListMemberScraping(S, id)
         ELSE FinishCreate(S)
    ELSE FinishCreate(S)

\* ControlsDisabled with both buttons always enabled
ControlsDisabled_Never == FALSE

\* disabled={isCreating} of the Reset Form and Create Campaign buttons
ControlsDisabled == isCreating

\* createCampaign up to its await (the Create Campaign button)
createCampaign ==
    LET errors == FormErrors(newCampaign, csvFile) IN
    /\ FormRendered /\ ~ControlsDisabled
    /\ Len(SelectSeq(calls, LAMBDA c : c.op = "createCampaign")) < MaxCampaigns
    /\ UNCHANGED <<newCampaign, csvFile, csvUploading, scrapingProgress, intervals, loading,
                   campaigns, backend, pendingLoads, toasts, created>>
    /\ validationErrors' = errors
    /\ IF ~NoKeys(errors)
       THEN /\ error' = "Please fix the validation errors before creating the campaign"
            /\ UNCHANGED <<isCreating, flow, calls>>
       ELSE /\ isCreating' = TRUE
            /\ error' = Null
            /\ calls' = Append(calls, [op |-> "createCampaign", id |-> 0,
                                       campaign |-> newCampaign, file |-> <<>>])
            /\ flow' = [pc |-> "creating", campaign |-> newCampaign, file |-> csvFile, id |-> 0]

Outcomes == {"ok", "null", "throw"}

NextId(S) == Cardinality({i \in 1..Len(S.calls) : S.calls[i].op = "createCampaign"})

\* AfterCreate that runs the end of the success block on a failure result too
AfterCreate_ResetsOnFailure(S, outcome) ==
    IF outcome = "ok"
    THEN ContinueCreate([S EXCEPT !.backend = @ \cup {NextId(S)}, !.created = @ \cup {NextId(S)},
                                  !.flow = [@ EXCEPT !.id = NextId(S)]], 1)
    ELSE IF outcome = "null"
    THEN FinishCreate(withToastFailure(S, "Create Campaign"))
    ELSE [S EXCEPT !.error = "Failed to create campaign. Please try again.",
                   !.isCreating = FALSE, !.flow = IdleFlow]

\* createCampaign after `await withCampaignToast(api.createCampaign(...))`
AfterCreate(S, outcome) ==
    IF outcome = "ok"
    THEN ContinueCreate([S EXCEPT !.backend = @ \cup {NextId(S)}, !.created = @ \cup {NextId(S)},
                                  !.flow = [@ EXCEPT !.id = NextId(S)]], 1)
    ELSE IF outcome = "null"
    THEN [withToastFailure(S, "Create Campaign") EXCEPT !.isCreating = FALSE, !.flow = IdleFlow]
    ELSE [S EXCEPT !.error = "Failed to create campaign. Please try again.",
                   !.isCreating = FALSE, !.flow = IdleFlow]

CreateResolves(outcome) ==
    /\ flow.pc = "creating"
    /\ Becomes(AfterCreate(Cur, outcome))

\* handleCSVUpload after its await (catch and finally), then the rest of createCampaign
AfterCSVUpload(S, outcome) ==
    ContinueCreate([(IF outcome = "ok" THEN S ELSE withToastFailure(S, "Upload CSV"))
                        EXCEPT !.csvUploading = FALSE], 2)

CSVUploadResolves(outcome) ==
    /\ flow.pc = "csv"
    /\ Becomes(AfterCSVUpload(Cur, outcome))

ScrapeStatus(kind, outcome) ==
    IF outcome = "ok"
    THEN IF kind = "followers" THEN "Scraped followers" ELSE "Scraped list members"
    ELSE IF kind = "followers" THEN "Scraping failed" ELSE "List scraping failed"

\* handleFollowerScraping / handleListMemberScraping after the await
AfterScrapeJob(S, kind, outcome) ==
    LET id == S.flow.id
        timer == [id |-> id, kind |-> kind]
    IN
    IF outcome = "ok"
    THEN [S EXCEPT !.intervals = @ \ {timer},
                   !.scrapingProgress = WithProgress(@, id,
                        [progress |-> 100, status |-> ScrapeStatus(kind, outcome)])]
    ELSE IF outcome = "null"
    THEN [withToastFailure(S, IF kind = "followers" THEN "Scrape Followers" ELSE "Scrape List Members")
             EXCEPT !.intervals = @ \ {timer}]
    ELSE [S EXCEPT !.scrapingProgress = WithProgress(@, id,
                        [progress |-> 0, status |-> ScrapeStatus(kind, outcome)])]

\* AfterFollowerScraping without the handler's own try/catch: a thrown error
\* reaches createCampaign's catch
AfterFollowerScraping_Rethrows(S, outcome) ==
    IF outcome = "throw"
    THEN [S EXCEPT !.error = "Failed to create campaign. Please try again.",
                   !.isCreating = FALSE, !.flow = IdleFlow]
    ELSE ContinueCreate(AfterScrapeJob(S, "followers", outcome), 3)

AfterFollowerScraping(S, outcome) == ContinueCreate(AfterScrapeJob(S, "followers", outcome), 3)

AfterListMemberScraping(S, outcome) == ContinueCreate(AfterScrapeJob(S, "list", outcome), 4)

FollowerScrapeResolves(outcome) ==
    /\ flow.pc = "followers"
    /\ Becomes(AfterFollowerScraping(Cur, outcome))

ListScrapeResolves(outcome) ==
    /\ flow.pc = "list"
    /\ Becomes(AfterListMemberScraping(Cur, outcome))

\* one firing of a progressInterval callback
Step(kind) == IF kind = "followers" THEN 10 ELSE 15

TickStatus(kind) == IF kind = "followers" THEN "Scraping followers from @..." ELSE "Scraping members from list ..."

ProgressTick(timer) ==
    LET id == timer.id
        current == IF id \in DOMAIN scrapingProgress /\ scrapingProgress[id].progress /= 0
                   THEN scrapingProgress[id].progress ELSE 10
    IN
    /\ timer \in intervals
    /\ current < 90
    /\ scrapingProgress' = WithProgress(scrapingProgress, id,
                              [progress |-> current + Step(timer.kind), status |-> TickStatus(timer.kind)])
    /\ UNCHANGED <<newCampaign, csvFile, validationErrors, error, isCreating, csvUploading,
                   intervals, loading, campaigns, flow, calls, backend, pendingLoads, toasts, created>>

\* the Reset Form button
ResetFormClicked ==
    /\ FormRendered /\ ~ControlsDisabled
    /\ Becomes(resetForm(Cur))

LoadOutcomes == {"ok", "fail"}

\* loadCampaigns after `await api.getCampaigns()`
LoadCampaignsResolves(outcome) ==
    /\ pendingLoads > 0
    /\ pendingLoads' = pendingLoads - 1
    /\ loading' = FALSE
    /\ IF outcome = "ok"
       THEN campaigns' = backend /\ UNCHANGED error
       ELSE error' = "Failed to load campaigns" /\ UNCHANGED campaigns
    /\ UNCHANGED <<newCampaign, csvFile, validationErrors, isCreating, csvUploading,
                   scrapingProgress, intervals, flow, calls, backend, toasts, created>>

\* deleteCampaign up to its await (the trash button of a listed campaign)
deleteCampaign(id) ==
    /\ ~loading
    /\ id \in campaigns
    /\ ~\E i \in 1..Len(calls) : calls[i].op = "deleteCampaign" /\ calls[i].id = id
    /\ calls' = Append(calls, [op |-> "deleteCampaign", id |-> id, campaign |-> DefaultCampaign, file |-> <<>>])
    /\ backend' = backend \ {id}
    /\ loading' = TRUE
    /\ pendingLoads' = pendingLoads + 1
    /\ UNCHANGED <<newCampaign, csvFile, validationErrors, error, isCreating, csvUploading,
                   scrapingProgress, intervals, campaigns, flow, toasts, created>>

\* a user input event; the two counters only bound the exploration
UserEdit ==
    \/ \E v \in Names : SetName(v)
    \/ \E v \in SenderIds : SetSenderAccount(v)
    \/ \E v \in Descriptions : SetDescription(v)
    \/ \E t \in TargetTypes : SetTargetType(t)
    \/ \E v \in TargetIdentifiers : SetTargetIdentifier(v)
    \/ \E b \in BOOLEAN : SetVerifiedOnly(b)
    \/ \E v \in Templates : SetTemplate(v)
    \/ \E v \in DailyLimits : SetDailyLimit(v)
    \/ \E picked \in {<<>>} \cup {<<f>> : f \in Files} : handleFileUpload(picked)
    \/ \E files \in DropLists : handleDrop(files)
    \/ removeCsvFile

BoundedUserEdit ==
    /\ edits < MaxEdits
    /\ isCreating => inFlightEdits < MaxInFlightEdits
    /\ UserEdit
    /\ edits' = edits + 1
    /\ inFlightEdits' = IF isCreating THEN inFlightEdits + 1 ELSE inFlightEdits

CampaignStep ==
    \/ createCampaign
    \/ \E outcome \in Outcomes : CreateResolves(outcome)
    \/ \E outcome \in Outcomes : CSVUploadResolves(outcome)
    \/ \E outcome \in Outcomes : FollowerScrapeResolves(outcome)
    \/ \E outcome \in Outcomes : ListScrapeResolves(outcome)
    \/ \E timer \in intervals : ProgressTick(timer)
    \/ ResetFormClicked
    \/ \E outcome \in LoadOutcomes : LoadCampaignsResolves(outcome)
    \/ \E id \in CampaignIds : deleteCampaign(id)

CampaignNext ==
    \/ BoundedUserEdit
    \/ CampaignStep /\ UNCHANGED edits /\ inFlightEdits' = IF isCreating' THEN inFlightEdits ELSE 0

\* ------------------------------------------------------------------------
\* The validation functions of the form, applied to a typed text
\* ------------------------------------------------------------------------
MaxTypedLen == 3

\* characters the user types: letters, a digit, an underscore, and
\* characters the patterns do not allow
TypedChars == {"a", "Z", "7", "_", "@", " ", "-"}

\* texts at the limits of the rules, pasted into the field
PastedTexts ==
    {<<"e", "l", "o", "n", "m", "u", "s", "k">>, <<"1", "2", "3", "4", "5">>,
     <<"a", "b", "c", "1", "2", "3">>,
     Str(MaxUsernameLen, "a"), Str(MaxUsernameLen + 1, "a"),
     Str(MaxUsernameLen, "a") \o <<"@">>, Str(MaxUsernameLen + 1, "7"),
     Str(MinTemplateLen - 1, "x"), Str(MinTemplateLen, "x"),
     Str(MinTemplateLen - 1, " "), Str(MinTemplateLen, " "),
     <<" ">> \o Str(MinTemplateLen - 2, "x"), <<" ">> \o Str(MinTemplateLen - 1, "x"),
     Str(MaxTemplateLen, "x"), Str(MaxTemplateLen + 1, "x"),
     Str(MaxTemplateLen, " "), Str(MaxTemplateLen + 1, " "),
     Str(MaxTemplateLen - 1, "x") \o <<" ">>, Str(MaxTemplateLen, "x") \o <<" ">>}

NotChecked == [by |-> "none", result |-> Null]

\* typed: the text of the field; verdict: the validator last applied to it
\* and what it returned
VARIABLES typed, verdict

validationVars == <<typed, verdict>>

ValidationInitial ==
    /\ typed = <<>>
    /\ verdict = NotChecked

\* onChange of a text field after a keystroke
TypeChar(c) ==
    /\ Len(typed) < MaxTypedLen
    /\ typed' = Append(typed, c)
    /\ verdict' = NotChecked

\* onChange of a text field after a paste over its whole content
PasteText(text) ==
    /\ typed' = text
    /\ verdict' = NotChecked

\* validateForm applying each validator to the field's text
CheckUsername ==
    /\ verdict = NotChecked
    /\ verdict' = [by |-> "validateUsername", result |-> validateUsername(typed)]
    /\ UNCHANGED typed

CheckListId ==
    /\ verdict = NotChecked
    /\ verdict' = [by |-> "validateListId", result |-> validateListId(typed)]
    /\ UNCHANGED typed

CheckTemplate ==
    /\ verdict = NotChecked
    /\ verdict' = [by |-> "validateTemplate", result |-> validateTemplate(typed)]
    /\ UNCHANGED typed

ValidationNext ==
    \/ \E c \in TypedChars : TypeChar(c)
    \/ \E text \in PastedTexts : PasteText(text)
    \/ CheckUsername
    \/ CheckListId
    \/ CheckTemplate

\* ------------------------------------------------------------------------
\* The earlier OAuth 1.0a callback page (oauth_token / oauth_verifier)
\* ------------------------------------------------------------------------
LegacyTokens == {Null, "t1"}
LegacyVerifiers == {Null, "v1"}
LegacySecret == "secret1"

InitialLegacyPage == [loaded |-> FALSE, oauth_token |-> Null, oauth_verifier |-> Null,
                      opener |-> FALSE, status |-> "processing", message |-> MsgProcessing,
                      runs |-> 0, pending |-> 0, successTimers |-> 0, closed |-> FALSE,
                      location |-> "callback"]

\* legacyPage: the window showing the page; legacySecret: the
\* oauth_token_secret item of sessionStorage; legacyCalls: the number of
\* api.handleXOAuthCallback requests made
VARIABLES legacyPage, legacySecret, legacyCalls

legacyVars == <<legacyPage, legacySecret, legacyCalls>>

LegacyInitial ==
    /\ legacyPage = InitialLegacyPage
    /\ legacySecret = Null
    /\ legacyCalls = 0

\* The provider navigates a window to the callback URL; `stored` is the
\* oauth_token_secret item the session holds when the page opens.
LegacyLoadCallback(token, verifier, opener, stored) ==
    /\ ~legacyPage.loaded
    /\ legacyPage' = [InitialLegacyPage EXCEPT !.loaded = TRUE, !.oauth_token = token,
                                               !.oauth_verifier = verifier, !.opener = opener]
    /\ legacySecret' = stored
    /\ UNCHANGED <<legacyCalls, posted>>

\* handleCallback from the start of the effect to its first return or await
LegacyHandleCallback ==
    LET ran == [legacyPage EXCEPT !.runs = @ + 1] IN
    /\ legacyPage.loaded /\ ~legacyPage.closed /\ legacyPage.location = "callback"
    /\ legacyPage.runs < MaxRuns
    /\ IF ~Truthy(legacyPage.oauth_token) \/ ~Truthy(legacyPage.oauth_verifier)
       THEN /\ legacyPage' = [ran EXCEPT !.status = "error", !.message = MsgMissingParams]
            /\ UNCHANGED <<legacySecret, legacyCalls>>
       ELSE IF ~Truthy(legacySecret)
       THEN /\ legacyPage' = [ran EXCEPT !.status = "error", !.message = MsgSessionExpired]
            /\ UNCHANGED <<legacySecret, legacyCalls>>
       ELSE /\ legacySecret' = Null
            /\ legacyCalls' = legacyCalls + 1
            /\ legacyPage' = [ran EXCEPT !.pending = @ + 1]
    /\ UNCHANGED posted

\* handleCallback after `await api.handleXOAuthCallback`
LegacyCallbackResolves(outcome) ==
    LET done == [legacyPage EXCEPT !.pending = @ - 1] IN
    /\ legacyPage.pending > 0
    /\ legacyPage' =
           CASE outcome = "success" ->
                    [done EXCEPT !.status = "success", !.message = MsgConnected, !.successTimers = @ + 1]
             [] outcome = "failure" ->
                    [done EXCEPT !.status = "error", !.message = MsgExchangeFailed(Null)]
             [] outcome = "failure_with_error" ->
                    [done EXCEPT !.status = "error", !.message = MsgExchangeFailed("Invalid OAuth state")]
             [] OTHER ->
                    [done EXCEPT !.status = "error", !.message = MsgUnexpected]
    /\ UNCHANGED <<legacySecret, legacyCalls, posted>>

\* LegacyTargetOrigin as the wildcard
LegacyTargetOrigin_Wildcard == "*"

\* the target origin of the page's postMessage: window.location.origin
LegacyTargetOrigin == Origin

\* the setTimeout callback of the success branch: window.close(), then a
\* message to the opener of a popup, else router.push('/accounts')
LegacySuccessTimerFires ==
    /\ legacyPage.successTimers > 0
    /\ IF legacyPage.opener
       THEN /\ legacyPage' = [legacyPage EXCEPT !.successTimers = @ - 1, !.closed = TRUE]
            /\ posted' = Append(posted, [from |-> "legacy",
                              msg |-> [type |-> "oauth_success", error |-> Null, code |-> Null, state |-> Null],
                              targetOrigin |-> LegacyTargetOrigin])
       ELSE /\ legacyPage' = [legacyPage EXCEPT !.successTimers = @ - 1, !.location = "accounts"]
            /\ UNCHANGED posted
    /\ UNCHANGED <<legacySecret, legacyCalls>>

\* the "Back to Accounts" button, rendered only in the error status
LegacyHandleRetry ==
    /\ legacyPage.loaded /\ ~legacyPage.closed
    /\ legacyPage.status = "error" /\ legacyPage.location = "callback"
    /\ legacyPage' = [legacyPage EXCEPT !.location = "accounts"]
    /\ UNCHANGED <<legacySecret, legacyCalls, posted>>

LegacyNext ==
    \/ \E token \in LegacyTokens, verifier \in LegacyVerifiers, opener \in BOOLEAN,
          stored \in {Null, LegacySecret} :
          LegacyLoadCallback(token, verifier, opener, stored)
    \/ LegacyHandleCallback
    \/ \E outcome \in ExchangeOutcomes : LegacyCallbackResolves(outcome)
    \/ LegacySuccessTimerFires
    \/ LegacyHandleRetry

\* a callback window opened as a popup of the accounts page
PopupLoadCallback ==
    \E p \in Pages, code \in UrlCodes, state \in UrlStates(flows), err \in UrlErrors,
       desc \in UrlErrorDescriptions :
          LoadCallback(p, code, state, err, desc, TRUE)

\* a callback window reached by the direct redirect (no opener); the
\* provider sends error_description only together with error
DirectLoadCallback ==
    \E p \in Pages, code \in UrlCodes, state \in UrlStates(flows), err \in UrlErrors,
       desc \in UrlErrorDescriptions :
          /\ err = Null => desc = Null
          /\ LoadCallback(p, code, state, err, desc, FALSE)

\* the callback page in the direct redirect flow
DirectNext ==
    \/ InitiateConnect
    \/ DirectLoadCallback
    \/ \E p \in Pages : HandleCallback(p)
    \/ \E p \in Pages, outcome \in ExchangeOutcomes : ExchangeResolves(p, outcome)
    \/ \E p \in Pages : RedirectTimerFires(p)
    \/ \E p \in Pages : HandleRetry(p)

\* the two callback pages as popups of one opener: every step that can end
\* in a postMessage to the opener
RelayNext ==
    \/ PopupLoadCallback /\ UNCHANGED legacyVars
    \/ (\E p \in Pages : HandleCallback(p)) /\ UNCHANGED legacyVars
    \/ LegacyNext /\ UNCHANGED <<sessionStorage, flows, page, exchangeCalls>>

\* ------------------------------------------------------------------------
\* The connected-accounts page (src/app/accounts/page.tsx, Accounts)
\* ------------------------------------------------------------------------

MaxAccounts == 2
MaxAccountRequests == 2

AccountIds == 1..MaxAccounts

\* null where an account id is expected
NoAccount == 0

ResponseOutcomes == {"ok", "fail", "throw"}

VARIABLES accounts, accountsLoading, disconnectingId, accountsInfo,
          accountRuns, accountRequests, serverAccounts, accountToasts

accountsVars == <<accounts, accountsLoading, disconnectingId, accountsInfo,
                  accountRuns, accountRequests, serverAccounts, accountToasts>>

\* useState initial values and the loadAccounts() call of the mount effect,
\* which is waiting for api.getTwitterAccounts()
AccountsInitial ==
    /\ accounts = {}
    /\ accountsLoading = TRUE
    /\ disconnectingId = NoAccount
    /\ accountsInfo = {}
    /\ accountRuns = {[n |-> 0, account |-> NoAccount, at |-> "accounts", list |-> {}]}
    /\ accountRequests = 0
    /\ serverAccounts = AccountIds
    /\ accountToasts = {}

\* the account cards are rendered when loading is false
AccountListRendered == ~accountsLoading

\* disabled={disconnectingId === account.id}
DisconnectDisabled(a) == disconnectingId = a

\* the end of a run of loadAccounts: its finally block, and for a run started
\* by handleDisconnectAccount the finally block of that handler
FinishAccountRun(r) ==
    /\ accountsLoading' = FALSE
    /\ disconnectingId' = IF r.account = NoAccount THEN disconnectingId ELSE NoAccount
    /\ accountRuns' = accountRuns \ {r}

\* handleDisconnectAccount up to its await
handleDisconnectAccount(a) ==
    /\ AccountListRendered
    /\ a \in accounts
    /\ ~DisconnectDisabled(a)
    /\ accountRequests < MaxAccountRequests
    /\ disconnectingId' = a
    /\ accountRequests' = accountRequests + 1
    /\ accountRuns' = accountRuns \cup
          {[n |-> accountRequests + 1, account |-> a, at |-> "disconnect", list |-> {}]}
    /\ UNCHANGED <<accounts, accountsLoading, accountsInfo, serverAccounts, accountToasts>>

\* handleAuthSuccess: loadAccounts up to its await
handleAuthSuccess ==
    /\ accountRequests < MaxAccountRequests
    /\ accountsLoading' = TRUE
    /\ accountRequests' = accountRequests + 1
    /\ accountRuns' = accountRuns \cup
          {[n |-> accountRequests + 1, account |-> NoAccount, at |-> "accounts", list |-> {}]}
    /\ UNCHANGED <<accounts, disconnectingId, accountsInfo, serverAccounts, accountToasts>>

\* api.disconnectXAccount answers: on success the handler toasts and enters
\* loadAccounts, otherwise it toasts and runs its finally block
DisconnectResolves(r, outcome) ==
    /\ r \in accountRuns /\ r.at = "disconnect"
    /\ IF outcome = "ok"
       THEN /\ serverAccounts' = serverAccounts \ {r.account}
            /\ accountToasts' = accountToasts \cup {"Account disconnected successfully"}
            /\ accountsLoading' = TRUE
            /\ accountRuns' = (accountRuns \ {r}) \cup {[r EXCEPT !.at = "accounts"]}
            /\ UNCHANGED disconnectingId
       ELSE /\ accountToasts' = accountToasts \cup {"Failed to disconnect account"}
            /\ disconnectingId' = NoAccount
            /\ accountRuns' = accountRuns \ {r}
            /\ UNCHANGED <<serverAccounts, accountsLoading>>
    /\ UNCHANGED <<accounts, accountsInfo, accountRequests>>

\* api.getTwitterAccounts answers inside loadAccounts
AccountsResolve(r, outcome) ==
    /\ r \in accountRuns /\ r.at = "accounts"
    /\ IF outcome = "ok"
       THEN /\ accounts' = serverAccounts
            /\ accountRuns' = (accountRuns \ {r}) \cup
                  {[r EXCEPT !.at = "info", !.list = serverAccounts]}
            /\ UNCHANGED <<accountsLoading, disconnectingId, accountToasts>>
       ELSE /\ accountToasts' = accountToasts \cup
                  {IF outcome = "fail" THEN "Failed to load connected accounts"
                                       ELSE "Failed to load accounts"}
            /\ FinishAccountRun(r)
            /\ UNCHANGED accounts
    /\ UNCHANGED <<accountsInfo, accountRequests, serverAccounts>>

\* loadAccountsInfo: Promise.all over api.getMyAccountInfo settles, with
\* details for the accounts in got
AccountsInfoResolve(r, got) ==
    /\ r \in accountRuns /\ r.at = "info"
    /\ got \subseteq r.list
    /\ accountsInfo' = got
    /\ FinishAccountRun(r)
    /\ UNCHANGED <<accounts, accountRequests, serverAccounts, accountToasts>>

AccountsNext ==
    \/ \E a \in AccountIds : handleDisconnectAccount(a)
    \/ handleAuthSuccess
    \/ \E r \in accountRuns, outcome \in ResponseOutcomes : DisconnectResolves(r, outcome)
    \/ \E r \in accountRuns, outcome \in ResponseOutcomes : AccountsResolve(r, outcome)
    \/ \E r \in accountRuns, got \in SUBSET AccountIds : AccountsInfoResolve(r, got)

\* ------------------------------------------------------------------------
\* The target-list form (src/components/UserListForm.tsx, UserListForm)
\* ------------------------------------------------------------------------

MaxListEdits == 4
MaxScrapes == 1

\* texts the user types into the two inputs
UserInputs == {<<"@", "a">>, <<"a">>, <<"b", " ">>, <<" ">>, <<"u", "s", "e", "r", "1">>}

mockUsers == << <<"u", "s", "e", "r", "1">>, <<"u", "s", "e", "r", "2">>, <<"u", "s", "e", "r", "3">>,
               <<"u", "s", "e", "r", "4">>, <<"u", "s", "e", "r", "5">> >>

VARIABLES usernames, inputValue, isScrapingUsers, targetAccount, scrapeTimers,
          listEdits, scrapes

userListVars == <<usernames, inputValue, isScrapingUsers, targetAccount, scrapeTimers,
                  listEdits, scrapes>>

UserListInitial ==
    /\ usernames = <<>>
    /\ inputValue = <<>>
    /\ isScrapingUsers = FALSE
    /\ targetAccount = <<>>
    /\ scrapeTimers = {}
    /\ listEdits = 0
    /\ scrapes = 0

\* s.replace('@', ''): the first '@' is removed
ReplaceAt(s) ==
    IF Includes(s, "@")
    THEN LET i == CHOOSE k \in 1..Len(s) : s[k] = "@" /\ \A j \in 1..(k - 1) : s[j] /= "@"
         IN SubSeq(s, 1, i - 1) \o SubSeq(s, i + 1, Len(s))
    ELSE s

\* list.includes(x)
ListIncludes(list, x) == \E i \in 1..Len(list) : list[i] = x

\* list.filter(u => keep(u)) for the two filters of the component
RECURSIVE Without(_, _)
Without(list, x) ==
    IF list = <<>> THEN <<>>
    ELSE (IF Head(list) = x THEN <<>> ELSE <<Head(list)>>) \o Without(Tail(list), x)

RECURSIVE NotIncludedIn(_, _)
NotIncludedIn(list, other) ==
    IF list = <<>> THEN <<>>
    ELSE (IF ListIncludes(other, Head(list)) THEN <<>> ELSE <<Head(list)>>)
         \o NotIncludedIn(Tail(list), other)

\* onChange of the username input
SetInputValue(text) ==
    /\ listEdits < MaxListEdits
    /\ text /= inputValue
    /\ inputValue' = text
    /\ listEdits' = listEdits + 1
    /\ UNCHANGED <<usernames, isScrapingUsers, targetAccount, scrapeTimers, scrapes>>

\* onChange of the competitor-account input
SetTargetAccount(text) ==
    /\ listEdits < MaxListEdits
    /\ text /= targetAccount
    /\ targetAccount' = text
    /\ listEdits' = listEdits + 1
    /\ UNCHANGED <<usernames, inputValue, isScrapingUsers, scrapeTimers, scrapes>>

\* addUsername(inputValue), from the Add button or the Enter key
addUsername ==
    LET cleanUsername == Trim(ReplaceAt(inputValue))
    IN
    /\ listEdits < MaxListEdits
    /\ listEdits' = listEdits + 1
    /\ IF cleanUsername /= <<>> /\ ~ListIncludes(usernames, cleanUsername)
       THEN /\ usernames' = Append(usernames, cleanUsername)
            /\ inputValue' = <<>>
       ELSE UNCHANGED <<usernames, inputValue>>
    /\ UNCHANGED <<isScrapingUsers, targetAccount, scrapeTimers, scrapes>>

\* the X of a badge
removeUsername(username) ==
    /\ ListIncludes(usernames, username)
    /\ listEdits < MaxListEdits
    /\ listEdits' = listEdits + 1
    /\ usernames' = Without(usernames, username)
    /\ UNCHANGED <<inputValue, isScrapingUsers, targetAccount, scrapeTimers, scrapes>>

\* scrapeFollowers: the Scrape button is disabled while targetAccount is blank
\* or a scrape is running; the timeout callback closes over this render's
\* usernames
scrapeFollowers ==
    /\ Trim(targetAccount) /= <<>> /\ ~isScrapingUsers
    /\ scrapes < MaxScrapes
    /\ scrapes' = scrapes + 1
    /\ isScrapingUsers' = TRUE
    /\ scrapeTimers' = scrapeTimers \cup {[usernames |-> usernames]}
    /\ UNCHANGED <<usernames, inputValue, targetAccount, listEdits>>

\* the setTimeout callback of scrapeFollowers, 3000 ms later
ScrapeTimerFires(timer) ==
    /\ timer \in scrapeTimers
    /\ scrapeTimers' = scrapeTimers \ {timer}
    /\ usernames' = timer.usernames \o NotIncludedIn(mockUsers, timer.usernames)
    /\ isScrapingUsers' = FALSE
    /\ targetAccount' = <<>>
    /\ UNCHANGED <<inputValue, listEdits, scrapes>>

UserListNext ==
    \/ \E text \in UserInputs : SetInputValue(text)
    \/ \E text \in UserInputs : SetTargetAccount(text)
    \/ addUsername
    \/ \E i \in 1..Len(usernames) : removeUsername(usernames[i])
    \/ scrapeFollowers
    \/ \E timer \in scrapeTimers : ScrapeTimerFires(timer)

\* ------------------------------------------------------------------------
\* The local campaigns page (src/app/campaigns/page.tsx, Campaigns)
\* ------------------------------------------------------------------------

MaxLocalCreates == 2

LocalNames == {"", "Launch"}
LocalAccounts == {"", "@business_acc"}
LocalTemplates == {"", "Hi {name}"}

VARIABLES localCampaigns, localNewCampaign, localCreates

localVars == <<localCampaigns, localNewCampaign, localCreates>>

EmptyLocalCampaign == [name |-> "", account |-> "", template |-> ""]

\* the three campaigns of the useState initial value
LocalInitial ==
    /\ localCampaigns =
          << [id |-> 1, name |-> "Tech Founders Outreach", status |-> "active",
              account |-> "@your_account", template |-> "Hi {name}, I noticed"],
             [id |-> 2, name |-> "Marketing Directors", status |-> "paused",
              account |-> "@business_acc", template |-> "Hey {name}, loved"],
             [id |-> 3, name |-> "Startup CEOs", status |-> "completed",
              account |-> "@personal_brand", template |-> "Hi {name}, saw"] >>
    /\ localNewCampaign = EmptyLocalCampaign
    /\ localCreates = 0

\* campaigns.map(c => c.id === id ? {...c, status: flipped} : c)
toggleCampaignStatus(id) ==
    /\ localCampaigns' =
          [i \in 1..Len(localCampaigns) |->
              IF localCampaigns[i].id = id
              THEN [localCampaigns[i] EXCEPT
                       !.status = IF @ = "active" THEN "paused" ELSE "active"]
              ELSE localCampaigns[i]]
    /\ UNCHANGED <<localNewCampaign, localCreates>>

\* campaigns.filter(c => c.id !== id)
RECURSIVE WithoutId(_, _)
WithoutId(list, id) ==
    IF list = <<>> THEN <<>>
    ELSE (IF Head(list).id = id THEN <<>> ELSE <<Head(list)>>) \o WithoutId(Tail(list), id)

deleteLocalCampaign(id) ==
    /\ localCampaigns' = WithoutId(localCampaigns, id)
    /\ UNCHANGED <<localNewCampaign, localCreates>>

\* the inputs of the New Campaign tab
SetLocalName(name) ==
    /\ name /= localNewCampaign.name
    /\ localNewCampaign' = [localNewCampaign EXCEPT !.name = name]
    /\ UNCHANGED <<localCampaigns, localCreates>>

SetLocalAccount(account) ==
    /\ account /= "" /\ account /= localNewCampaign.account
    /\ localNewCampaign' = [localNewCampaign EXCEPT !.account = account]
    /\ UNCHANGED <<localCampaigns, localCreates>>

SetLocalTemplate(template) ==
    /\ template /= localNewCampaign.template
    /\ localNewCampaign' = [localNewCampaign EXCEPT !.template = template]
    /\ UNCHANGED <<localCampaigns, localCreates>>

\* createCampaign of the local page; its button is disabled while name or
\* template is empty
createLocalCampaign ==
    /\ localNewCampaign.name /= "" /\ localNewCampaign.template /= ""
    /\ localCreates < MaxLocalCreates
    /\ localCreates' = localCreates + 1
    /\ localCampaigns' =
          << [id |-> Len(localCampaigns) + 1,
              name |-> localNewCampaign.name,
              status |-> "active",
              account |-> IF localNewCampaign.account /= "" THEN localNewCampaign.account
                          ELSE "@your_account",
              template |-> localNewCampaign.template] >> \o localCampaigns
    /\ localNewCampaign' = EmptyLocalCampaign

LocalNext ==
    \/ \E i \in 1..Len(localCampaigns) :
          localCampaigns[i].status /= "completed" /\ toggleCampaignStatus(localCampaigns[i].id)
    \/ \E i \in 1..Len(localCampaigns) : deleteLocalCampaign(localCampaigns[i].id)
    \/ \E name \in LocalNames : SetLocalName(name)
    \/ \E account \in LocalAccounts : SetLocalAccount(account)
    \/ \E template \in LocalTemplates : SetLocalTemplate(template)
    \/ createLocalCampaign

vars == <<oauthVars, campaignVars, validationVars, legacyVars, accountsVars, userListVars, localVars>>



\* ------------------------------------------------------------------------
\* Properties of the OAuth callback page (checked under SpecOAuth)
\* ------------------------------------------------------------------------
CallsFrom(p) == {i \in 1..Len(exchangeCalls) : exchangeCalls[i].from = p}

PostedFrom(p) == {i \in 1..Len(posted) : posted[i].from = p}

\* the scenario of C2: not a popup, a state token is stored, the URL has a
\* code and a state that differs from the stored token
MismatchScenario(p) ==
    /\ ~page[p].opener
    /\ Truthy(sessionStorage.x_oauth_state)
    /\ Truthy(page[p].code) /\ Truthy(page[p].state)
    /\ page[p].state /= sessionStorage.x_oauth_state

\* C2 as stated: every handler run in the mismatch scenario ends in the error
\* status with the invalid-state message and issues no code exchange.
C2_Original ==
    [][\A p \in Pages : (HandleCallback(p) /\ MismatchScenario(p)) =>
            /\ page'[p].status = "error"
            /\ page'[p].message = MsgInvalidState
            /\ exchangeCalls' = exchangeCalls]_vars

\* C2 amended: every handler run in the mismatch scenario ends in the error
\* status and issues no code exchange; the message is the invalid-state
\* message when the URL has no error parameter and a code verifier is stored.
C2_MismatchFails ==
    [][\A p \in Pages : (HandleCallback(p) /\ MismatchScenario(p)) =>
            /\ page'[p].status = "error"
            /\ exchangeCalls' = exchangeCalls
            /\ (~Truthy(page[p].error) /\ Truthy(sessionStorage.x_oauth_code_verifier))
                  => page'[p].message = MsgInvalidState]_vars

C2_Witness ==
    \E p \in Pages :
        /\ page[p].runs >= 1 /\ ~page[p].opener
        /\ page[p].status = "error" /\ page[p].message = MsgInvalidState
        /\ Truthy(sessionStorage.x_oauth_state)
        /\ page[p].state /= sessionStorage.x_oauth_state
        /\ CallsFrom(p) = {}

\* the scenario of C3: not a popup, the URL has a code and a state equal to
\* the stored state token, and a code verifier is stored
MatchScenario(p) ==
    /\ ~page[p].opener
    /\ Truthy(page[p].code) /\ Truthy(page[p].state)
    /\ page[p].state = sessionStorage.x_oauth_state
    /\ Truthy(sessionStorage.x_oauth_code_verifier)

\* no handshake is exchanged twice, and the secrets of an exchanged
\* handshake are not in session storage
ExchangedOnceAndGone ==
    /\ \A i, j \in 1..Len(exchangeCalls) :
          exchangeCalls[i].state = exchangeCalls[j].state => i = j
    /\ \A i \in 1..Len(exchangeCalls) :
          /\ sessionStorage.x_oauth_state /= exchangeCalls[i].state
          /\ sessionStorage.x_oauth_code_verifier /= exchangeCalls[i].code_verifier

\* a handler run of page p issues the exchange call for the stored handshake
\* and leaves both secrets absent from session storage
IssuesExchange(p) ==
    /\ exchangeCalls' = Append(exchangeCalls,
           [from |-> p, code |-> page[p].code,
            code_verifier |-> sessionStorage.x_oauth_code_verifier, state |-> page[p].state])
    /\ sessionStorage' = EmptyStorage

\* C3 as stated: a handler run in the match scenario issues the exchange for
\* the stored handshake; no handshake is ever exchanged twice, whatever the
\* number of handler runs; and the secrets are absent from storage afterwards
\* whatever the exchange's outcome.
C3_Original ==
    /\ []ExchangedOnceAndGone
    /\ [][\A p \in Pages : (HandleCallback(p) /\ MatchScenario(p)) => IssuesExchange(p)]_vars

\* C3 amended: as C3, for a callback URL that has no error parameter.
C3_ExchangeExactlyOnce ==
    /\ []ExchangedOnceAndGone
    /\ [][\A p \in Pages : (HandleCallback(p) /\ MatchScenario(p) /\ ~Truthy(page[p].error))
              => IssuesExchange(p)]_vars

C3_Witness ==
    \E p \in Pages :
        /\ page[p].runs >= 2 /\ page[p].pending = 0
        /\ Cardinality(CallsFrom(p)) = 1
        /\ sessionStorage = EmptyStorage

\* C4: a popup-mode callback page whose URL has both code and state posts
\* exactly one message to its opener once its handler has run, is then
\* closed, never calls the code exchange and never reads or writes the
\* stored secrets.
C4_PopupRelaysOnly ==
    \A p \in Pages :
        (page[p].loaded /\ page[p].opener /\ Truthy(page[p].code) /\ Truthy(page[p].state)) =>
            /\ Cardinality(PostedFrom(p)) = (IF page[p].runs >= 1 THEN 1 ELSE 0)
            /\ page[p].runs >= 1 => page[p].closed
            /\ CallsFrom(p) = {}
            /\ page[p].pending = 0
            /\ page[p].storageReads = 0
            /\ page[p].storageWrites = 0

C4_Witness ==
    \E p \in Pages :
        /\ page[p].opener /\ Truthy(page[p].code) /\ page[p].state = sessionStorage.x_oauth_state
        /\ Truthy(sessionStorage.x_oauth_code_verifier)
        /\ page[p].runs = 1 /\ page[p].closed
        /\ Cardinality(PostedFrom(p)) = 1

\* a handler run of page p that reads both stored secrets
ReadsSecrets(p) ==
    /\ HandleCallback(p)
    /\ page'[p].storageReads > page[p].storageReads
    /\ Truthy(sessionStorage.x_oauth_state)
    /\ Truthy(sessionStorage.x_oauth_code_verifier)

SupersededScenario(p) ==
    /\ flows >= 2
    /\ \E i \in 1..(flows - 1) : page[p].state = NonceTable[i]

\* C12 as stated: every handler run of a callback that carries a superseded
\* state token ends in the error status and issues no code exchange.
C12_Original ==
    [][\A p \in Pages : (HandleCallback(p) /\ SupersededScenario(p)) =>
            /\ page'[p].status = "error"
            /\ exchangeCalls' = exchangeCalls]_vars

\* C12 amended: on the non-popup path, every handler run of a callback that
\* carries a superseded state token ends in the error status and issues no
\* code exchange, whether it runs before or after the callback of the latest
\* initiation; in popup mode the run issues no code exchange either.
C12_SupersededFlowFails ==
    [][\A p \in Pages : (HandleCallback(p) /\ SupersededScenario(p)) =>
            /\ ~page[p].opener => page'[p].status = "error"
            /\ exchangeCalls' = exchangeCalls]_vars

C12_Witness ==
    \E p, q \in Pages :
        /\ p /= q /\ flows >= 2
        /\ ~page[p].opener /\ page[p].state = NonceTable[1] /\ Truthy(page[p].code)
        /\ page[p].runs >= 1 /\ page[p].status = "error"
        /\ page[p].message \in {MsgInvalidState, MsgSessionExpired}
        /\ CallsFrom(p) = {}
        /\ page[q].state = NonceTable[2] /\ Cardinality(CallsFrom(q)) = 1

\* C13: once the status of a callback page is success or error, no step
\* (a further handler run or an exchange response) changes it.
C13_StatusTerminal ==
    [][\A p \in Pages :
          page[p].status \in {"success", "error"} => page'[p].status = page[p].status]_vars

\* the URL conditions of C17: not a popup, no error parameter, code and state
UrlComplete(p) ==
    /\ ~page[p].opener
    /\ page[p].error = Null
    /\ page[p].code /= Null /\ page[p].state /= Null

\* the storage conditions of C17: both secrets stored, URL state equal to the token
HandshakeStored(p) ==
    /\ sessionStorage.x_oauth_state /= Null
    /\ sessionStorage.x_oauth_code_verifier /= Null
    /\ page[p].state = sessionStorage.x_oauth_state

\* C17: a handler run calls the code exchange only if the page is not a
\* popup, the URL has no error parameter and has code and state, both
\* secrets are stored and the URL state equals the stored token; every other
\* run ends without an exchange call, and a run that passes the URL tests and
\* finds a stored value missing ends with the session-expired failure.
C17_ExchangeOnlyWhenValidated ==
    [][\A p \in Pages : HandleCallback(p) =>
          /\ exchangeCalls' /= exchangeCalls => (UrlComplete(p) /\ HandshakeStored(p))
          /\ ~(UrlComplete(p) /\ HandshakeStored(p)) =>
                exchangeCalls' = exchangeCalls /\ page'[p].pending = page[p].pending
          /\ (/\ UrlComplete(p)
              /\ sessionStorage.x_oauth_state = Null \/ sessionStorage.x_oauth_code_verifier = Null) =>
                page'[p].status = "error" /\ page'[p].message = MsgSessionExpired]_vars

C17_Witness ==
    \E p, q \in Pages :
        /\ p /= q
        /\ Cardinality(CallsFrom(p)) = 1
        /\ page[q].runs >= 1 /\ page[q].state = page[p].state /\ Truthy(page[q].code)
        /\ page[q].error = Null /\ ~page[q].opener
        /\ page[q].status = "error" /\ page[q].message = MsgSessionExpired
        /\ CallsFrom(q) = {}

\* what the response of an exchange does to the page that awaited it
ResponseHandled(p) ==
    /\ ExchangeResolves(p, "success") =>
          /\ page'[p].status = "success"
          /\ page'[p].redirectTimers = page[p].redirectTimers + 1
    /\ (\E outcome \in ExchangeOutcomes \ {"success"} : ExchangeResolves(p, outcome)) =>
          /\ page'[p].status = "error"
          /\ page'[p].redirectTimers = page[p].redirectTimers
          /\ page'[p].location = page[p].location
          /\ exchangeCalls' = exchangeCalls

\* the accounts view is reached by the redirect timer of a successful
\* response or by the back button of the error status, and by nothing else
NavigationCause(p) ==
    /\ page'[p].redirectTimers > page[p].redirectTimers => ExchangeResolves(p, "success")
    /\ page'[p].location /= page[p].location =>
          \/ page[p].redirectTimers > 0 /\ page'[p].redirectTimers = page[p].redirectTimers - 1
          \/ page[p].status = "error" /\ page'[p].redirectTimers = page[p].redirectTimers

\* C18: a successful exchange response sets status success and arms exactly
\* one redirect, which then takes the page to the accounts view; a failure
\* response or a thrown error sets status error, arms no redirect and causes
\* no further exchange call; no page issues a second exchange call, and the
\* only other way to the accounts view is the back button of the error status.
C18_AfterExchange ==
    /\ [][\A p \in Pages : ResponseHandled(p) /\ NavigationCause(p)]_vars
    /\ [](\A p \in Pages : Cardinality(CallsFrom(p)) <= 1 /\ page[p].redirectTimers <= 1)
    /\ \A p \in Pages : (page[p].redirectTimers > 0) ~> (page[p].location = "accounts")

C18_Witness ==
    \E p, q \in Pages :
        /\ p /= q
        /\ page[p].status = "success" /\ page[p].location = "accounts" /\ page[p].redirectTimers = 0
        /\ Cardinality(CallsFrom(q)) = 1 /\ page[q].pending = 0
        /\ page[q].status = "error" /\ page[q].message = MsgUnexpected
        /\ page[q].location = "accounts"

\* the message C19 expects from a popup with the URL parameters of page p
RelayedBy(p, msg) ==
    /\ msg.type = "oauth-callback"
    /\ IF page[p].error /= Null
       THEN /\ msg.error = (IF page[p].error_description /= Null
                            THEN page[p].error_description ELSE page[p].error)
            /\ msg.code = Null /\ msg.state = Null
       ELSE IF page[p].code /= Null /\ page[p].state /= Null
       THEN msg.code = page[p].code /\ msg.state = page[p].state /\ msg.error = Null
       ELSE msg.error = "Missing authorization code or state" /\ msg.code = Null /\ msg.state = Null

\* C19: a handler run in popup mode posts exactly one message, which carries
\* the error (error_description, else error) and no code when the URL has an
\* error parameter, else the code and state when both are present, else the
\* missing-parameters error; the popup is then closed and posts nothing more.
C19_PopupMessagePrecedence ==
    /\ [][\A p \in Pages : (HandleCallback(p) /\ page[p].opener) =>
              /\ Len(posted') = Len(posted) + 1
              /\ posted'[Len(posted')].from = p
              /\ RelayedBy(p, posted'[Len(posted')].msg)
              /\ page'[p].closed]_vars
    /\ [](\A p \in Pages : Cardinality(PostedFrom(p)) <= 1)

C19_Witness ==
    \E p \in Pages :
        /\ page[p].opener /\ page[p].closed
        /\ page[p].error /= Null /\ page[p].error_description /= Null
        /\ page[p].code /= Null /\ page[p].state /= Null
        /\ \E i \in PostedFrom(p) :
              posted[i].msg.error = page[p].error_description /\ posted[i].msg.code = Null

\* a run of page p on the non-popup path that ends Failed before any exchange
FailsBeforeExchange(p) ==
    /\ ~page[p].opener
    /\ \/ page[p].error /= Null
       \/ page[p].code = Null \/ page[p].state = Null
       \/ sessionStorage.x_oauth_state = Null \/ sessionStorage.x_oauth_code_verifier = Null
       \/ page[p].state /= sessionStorage.x_oauth_state

\* C26: a handler run on the non-popup path that ends Failed before any
\* exchange leaves session storage exactly as it was and ends in the error
\* status; a callback that carries the stored state can complete afterwards.
C26_FailedRunLeavesStorage ==
    [][\A p \in Pages : (HandleCallback(p) /\ FailsBeforeExchange(p)) =>
            /\ sessionStorage' = sessionStorage
            /\ page'[p].storageWrites = page[p].storageWrites
            /\ page'[p].status = "error"
            /\ exchangeCalls' = exchangeCalls]_vars

C26_Witness ==
    \E p, q \in Pages :
        /\ p /= q /\ flows = 1
        /\ page[q].message = MsgInvalidState /\ page[q].storageWrites = 0
        /\ page[p].state = NonceTable[1] /\ page[p].status = "success"
        /\ Cardinality(CallsFrom(p)) = 1
        /\ exchangeCalls[1].code_verifier = VerifierTable[1]

\* ------------------------------------------------------------------------
\* Properties of the campaign creation form (checked under SpecCampaign)
\* ------------------------------------------------------------------------
PleaseFix == "Please fix the validation errors before creating the campaign"

\* C1: a submit attempt whose draft has a validation violation issues no
\* backend call (no create, no scrape, no upload, no reload) and starts no
\* creation flow.
C1_ValidationGate ==
    [][(createCampaign /\ \E f \in ErrorFields : FormErrors(newCampaign, csvFile)[f] /= Null) =>
            /\ calls' = calls
            /\ pendingLoads' = pendingLoads
            /\ flow' = flow
            /\ ~isCreating']_vars

C1_Witness ==
    /\ error = PleaseFix
    /\ Truthy(validationErrors["name"]) /\ Truthy(validationErrors["message_template"])
    /\ calls = <<>>

SecondaryOps == {"uploadCSV", "scrapeFollowers", "scrapeListMembers"}

SecondaryOpOf(targetType) ==
    CASE targetType = "csv_upload" -> "uploadCSV"
      [] targetType = "user_followers" -> "scrapeFollowers"
      [] OTHER -> "scrapeListMembers"

CreateCalls == SelectSeq(calls, LAMBDA c : c.op = "createCampaign")

SecondaryCallsFor(id) == SelectSeq(calls, LAMBDA c : c.op \in SecondaryOps /\ c.id = id)

\* C6: every campaign id returned by a successful create has exactly one
\* secondary targeting call, the one for the target_type of the draft that
\* was submitted; no secondary call is made for any other id.
C6_ExactlyOneSecondary ==
    /\ \A id \in created :
          /\ Len(SecondaryCallsFor(id)) = 1
          /\ SecondaryCallsFor(id)[1].op = SecondaryOpOf(CreateCalls[id].campaign.target_type)
    /\ \A i \in 1..Len(calls) : calls[i].op \in SecondaryOps => calls[i].id \in created

C6_Witness ==
    /\ flow.pc = "followers"
    /\ flow.id \in created
    /\ newCampaign.target_type = "csv_upload"

FailedOutcomes == {"null", "throw"}

\* C7: when the secondary targeting call fails, no further backend call
\* (in particular no delete) is issued, the campaign stays in the backend,
\* the form is reset and the campaign list is reloaded.
C7_SecondaryFailureKeepsCampaign ==
    [][(\E o \in FailedOutcomes :
            CSVUploadResolves(o) \/ FollowerScrapeResolves(o) \/ ListScrapeResolves(o)) =>
            /\ calls' = calls
            /\ backend' = backend /\ flow.id \in backend'
            /\ newCampaign' = DefaultCampaign /\ csvFile' = <<>>
            /\ validationErrors' = NoErrors /\ error' = Null
            /\ pendingLoads' = pendingLoads + 1 /\ loading'
            /\ ~isCreating']_vars

C7_Witness ==
    \E id \in created :
        /\ id \in DOMAIN scrapingProgress /\ scrapingProgress[id].progress = 0
        /\ flow.pc = "idle" /\ ~loading
        /\ id \in campaigns
        /\ newCampaign = DefaultCampaign

Missing(f, nc, file) ==
    CASE f = "name" -> nc.name = <<>>
      [] f = "sender_account_id" -> nc.sender_account_id = 0
      [] f = "message_template" -> nc.message_template = <<>>
      [] f = "target_identifier" -> nc.target_type /= "csv_upload" /\ nc.target_identifier = <<>>
      [] OTHER -> nc.target_type = "csv_upload" /\ file = <<>>

\* the field `f` of the draft satisfies the validation rules of the form
FieldValid(f, nc, file) ==
    CASE f = "name" -> \E i \in 1..Len(nc.name) : nc.name[i] /= " "
      [] f = "sender_account_id" -> nc.sender_account_id /= 0
      [] f = "message_template" ->
            /\ \E i \in 1..Len(nc.message_template) : nc.message_template[i] /= " "
            /\ Len(nc.message_template) >= 10 /\ Len(nc.message_template) <= 280
      [] f = "target_identifier" ->
            CASE nc.target_type = "user_followers" ->
                    /\ Len(nc.target_identifier) \in 1..15
                    /\ \A i \in 1..Len(nc.target_identifier) :
                           nc.target_identifier[i] \in Letters \cup Digits \cup {"_"}
              [] nc.target_type = "list_members" ->
                    /\ Len(nc.target_identifier) >= 1
                    /\ \A i \in 1..Len(nc.target_identifier) : nc.target_identifier[i] \in Digits
              [] OTHER -> TRUE
      [] OTHER -> nc.target_type = "csv_upload" => file /= <<>>

\* C9: a submit attempt on a draft that is valid except for exactly one
\* missing required field leaves a non-empty validation error for exactly
\* that field and issues no backend call.
C9_ExactlyTheMissingField ==
    [][createCampaign =>
          \A f \in ErrorFields :
              (/\ Missing(f, newCampaign, csvFile)
               /\ \A g \in ErrorFields \ {f} : FieldValid(g, newCampaign, csvFile)) =>
                    /\ \A g \in ErrorFields : Truthy(validationErrors'[g]) <=> g = f
                    /\ calls' = calls
                    /\ pendingLoads' = pendingLoads]_vars

C9_Witness ==
    /\ error = PleaseFix
    /\ \A g \in ErrorFields : Truthy(validationErrors[g]) <=> g = "sender_account_id"
    /\ Missing("sender_account_id", newCampaign, csvFile)
    /\ \A g \in ErrorFields \ {"sender_account_id"} : FieldValid(g, newCampaign, csvFile)
    /\ calls = <<>>

\* C10: the attached file, and every file handed to the CSV upload call, is
\* a CSV (by MIME type or by extension) of at most 10MB.
C10_AttachedFileIsSmallCsv ==
    /\ csvFile /= <<>> =>
          /\ csvFile[1].type = "text/csv" \/ csvFile[1].csvName
          /\ csvFile[1].size <= 10 * 1024 * 1024
    /\ \A i \in 1..Len(calls) : calls[i].op = "uploadCSV" =>
          /\ calls[i].file[1].type = "text/csv" \/ calls[i].file[1].csvName
          /\ calls[i].file[1].size <= 10 * 1024 * 1024

\* C11: every simulated-progress timer that is still set belongs to the scrape
\* job that is in flight, so no timer survives the end of its job (success,
\* failure result or thrown error).
C11_TimersClearedWhenJobEnds ==
    \A timer \in intervals : flow.pc = timer.kind /\ flow.id = timer.id

\* a create-campaign request or its secondary targeting job is in flight
FlowInFlight == flow.pc /= "idle"

\* C21: the submit and reset controls are disabled exactly while a creation
\* flow is in flight, whatever the outcome that ended the previous flow; so
\* a create-campaign request is only issued, and the form is only reset by
\* its button, when no flow is in flight.
C21_ControlsDisabledInFlight ==
    /\ [](FlowInFlight <=> ControlsDisabled)
    /\ [][(createCampaign \/ ResetFormClicked) => ~FlowInFlight]_vars
    /\ [][Len(calls') > Len(calls) /\ calls'[Len(calls')].op = "createCampaign" => ~FlowInFlight]_vars

C21_Witness ==
    /\ ~FlowInFlight /\ ~ControlsDisabled /\ FormRendered
    /\ Len(CreateCalls) = 2
    /\ "Create Campaign" \in toasts
    /\ \E id \in created : id \in DOMAIN scrapingProgress /\ scrapingProgress[id].progress = 0

\* the scrape job of campaign `id` is still awaiting its response
ScrapeInFlight(id) == flow.pc \in {"followers", "list"} /\ flow.id = id

\* C22: a progress entry shows 100 only with the status a successful scrape
\* response sets, and never while the scrape of its campaign is in flight.
C22_HundredOnlyAfterSuccess ==
    \A id \in DOMAIN scrapingProgress :
        scrapingProgress[id].progress >= 100 =>
            /\ ~ScrapeInFlight(id)
            /\ scrapingProgress[id].status \in {ScrapeStatus("followers", "ok"), ScrapeStatus("list", "ok")}

CheckedFields == {"name", "sender_account_id", "message_template", "target_identifier"}

\* C24: a user edit that changes the value of a draft field whose validation
\* error is set clears that error and leaves the errors of the other fields
\* unchanged.
C24_EditClearsOwnError ==
    [][BoundedUserEdit =>
          \A f \in CheckedFields :
              (newCampaign'[f] /= newCampaign[f] /\ Truthy(validationErrors[f])) =>
                  /\ ~Truthy(validationErrors'[f])
                  /\ \A g \in ErrorFields \ {f} : validationErrors'[g] = validationErrors[g]]_vars

\* the creation form of component state S is as the component first renders it
FormIsInitial(S) ==
    /\ S.newCampaign = [name |-> <<>>, description |-> "", target_type |-> "user_followers",
                        target_identifier |-> <<>>, verified_only |-> FALSE,
                        message_template |-> <<>>, sender_account_id |-> 0, daily_limit |-> 50]
    /\ S.csvFile = <<>>
    /\ \A f \in ErrorFields : ~Truthy(S.validationErrors[f])
    /\ S.error = Null

\* a step that ends a creation flow whose last awaited call succeeded
SubmissionSucceeds ==
    /\ \/ CreateResolves("ok")
       \/ CSVUploadResolves("ok")
       \/ FollowerScrapeResolves("ok")
       \/ ListScrapeResolves("ok")
    /\ flow'.pc = "idle"

\* C25: the step that ends a fully successful submission and a click on
\* Reset Form both leave the creation form in its initial state, and
\* resetForm applied twice gives what it gives applied once.
C25_ResetRestoresInitialForm ==
    /\ [][(SubmissionSucceeds \/ ResetFormClicked) =>
              /\ newCampaign' = DefaultCampaign /\ csvFile' = <<>>
              /\ validationErrors' = NoErrors /\ error' = Null]_vars
    /\ [](FormIsInitial(resetForm(Cur)) /\ resetForm(resetForm(Cur)) = resetForm(Cur))

C25_Witness ==
    /\ FormIsInitial(Cur)
    /\ flow.pc = "idle" /\ ~isCreating
    /\ \E id \in created : id \in DOMAIN scrapingProgress /\ scrapingProgress[id].progress = 100
    /\ Len(calls) = 2

FailureStatuses == {ScrapeStatus("followers", "throw"), ScrapeStatus("list", "throw")}

\* C27: a scrape whose request throws leaves its campaign's progress entry at
\* progress 0 with a failure status, and an entry in that state is never
\* changed by a later step (in particular by a timer tick).
C27_FailureEntryIsKept ==
    [][/\ (FollowerScrapeResolves("throw") \/ ListScrapeResolves("throw")) =>
             /\ scrapingProgress'[flow.id].progress = 0
             /\ scrapingProgress'[flow.id].status \in FailureStatuses
       /\ \A id \in DOMAIN scrapingProgress :
             (scrapingProgress[id].progress = 0 /\ scrapingProgress[id].status \in FailureStatuses) =>
                 scrapingProgress'[id] = scrapingProgress[id]]_vars

\* ------------------------------------------------------------------------
\* Properties of the validation functions (checked under SpecValidation)
\* ------------------------------------------------------------------------
Blank(text) == \A i \in 1..Len(text) : text[i] = " "

WordChar(c) == c \in Letters \cup Digits \cup {"_"}

Accepted == verdict.result = Null

\* C14: validateUsername accepts a text if and only if it is not blank, has
\* no '@', has 1 to 15 characters and has only letters, digits and
\* underscores; a text with '@', with more than 15 characters or with a
\* non-word character is rejected, and elonmusk is accepted.
C14_UsernameRule ==
    verdict.by = "validateUsername" =>
        /\ Accepted <=> (/\ ~Blank(typed)
                         /\ \A i \in 1..Len(typed) : typed[i] /= "@"
                         /\ Len(typed) >= 1 /\ Len(typed) <= 15
                         /\ \A i \in 1..Len(typed) : WordChar(typed[i]))
        /\ (\E i \in 1..Len(typed) : typed[i] = "@") => ~Accepted
        /\ Len(typed) > 15 => ~Accepted
        /\ (\E i \in 1..Len(typed) : ~WordChar(typed[i])) => ~Accepted
        /\ typed = <<"e", "l", "o", "n", "m", "u", "s", "k">> => Accepted

C14_Witness ==
    /\ verdict.by = "validateUsername"
    /\ typed = <<"e", "l", "o", "n", "m", "u", "s", "k">>
    /\ Accepted

\* C15: validateTemplate accepts a text if and only if it is not blank and
\* has 10 to 280 characters; a non-blank text of 9 characters gets the
\* at-least-10 message, one of 280 is accepted, one of 281 is rejected.
C15_TemplateRule ==
    verdict.by = "validateTemplate" =>
        /\ Accepted <=> (~Blank(typed) /\ Len(typed) >= 10 /\ Len(typed) <= 280)
        /\ (~Blank(typed) /\ Len(typed) = 9) =>
              verdict.result = "Message template should be at least 10 characters"
        /\ (~Blank(typed) /\ Len(typed) = 280) => Accepted
        /\ Len(typed) = 281 => ~Accepted

C15_Witness ==
    /\ verdict.by = "validateTemplate"
    /\ Len(typed) = 280 /\ ~Blank(typed)
    /\ Accepted

\* C16: validateListId accepts a text if and only if it is non-empty and has
\* only decimal digits; 12345 is accepted and abc123 is rejected.
C16_ListIdRule ==
    verdict.by = "validateListId" =>
        /\ Accepted <=> (typed /= <<>> /\ \A i \in 1..Len(typed) : typed[i] \in Digits)
        /\ typed = <<"1", "2", "3", "4", "5">> => Accepted
        /\ typed = <<"a", "b", "c", "1", "2", "3">> => ~Accepted

C16_Witness ==
    /\ verdict.by = "validateListId"
    /\ typed = <<"a", "b", "c", "1", "2", "3">>
    /\ verdict.result = "List ID must be numeric"

\* ------------------------------------------------------------------------
\* Properties of the messages posted to the opener (checked under SpecRelay)
\* ------------------------------------------------------------------------

\* C20: every message a callback page has posted to its opener has the
\* page's own origin as target origin, never the wildcard.
C20_PostedToOwnOrigin ==
    \A i \in 1..Len(posted) : posted[i].targetOrigin = Origin /\ posted[i].targetOrigin /= "*"

C20_Witness ==
    /\ \E i \in 1..Len(posted) : posted[i].from = "legacy" /\ posted[i].msg.type = "oauth_success"
    /\ \E i \in 1..Len(posted) : posted[i].from \in Pages /\ posted[i].msg.code /= Null
    /\ \E i \in 1..Len(posted) : posted[i].from \in Pages /\ posted[i].msg.error /= Null

\* ------------------------------------------------------------------------
\* Properties of the connected-accounts page
\* ------------------------------------------------------------------------

DisconnectInFlight(a) == \E r \in accountRuns : r.account = a /\ r.at = "disconnect"

\* C28: while a disconnect request for an account is in flight, the Disconnect
\* control of that account is disabled, whatever happens to the disconnect
\* requests of other accounts.
C28_DisabledWhileInFlight ==
    \A a \in AccountIds : DisconnectInFlight(a) => DisconnectDisabled(a)

\* ------------------------------------------------------------------------
\* Properties of the target-list form
\* ------------------------------------------------------------------------

NoDuplicates(list) == \A i, j \in 1..Len(list) : list[i] = list[j] => i = j

Members(list) == {list[i] : i \in 1..Len(list)}

\* C29: usernames never holds a name twice, and when a scrape completes its
\* result is merged into the list as it is then: every name on the list stays
\* on it, and the only names that appear are scraped ones.
C29_ScrapeMergesIntoCurrentList ==
    /\ [](NoDuplicates(usernames))
    /\ [][(\E timer \in scrapeTimers : ScrapeTimerFires(timer)) =>
             /\ Members(usernames) \subseteq Members(usernames')
             /\ Members(usernames') \subseteq Members(usernames) \cup Members(mockUsers)]_vars

\* ------------------------------------------------------------------------
\* Properties of the local campaigns page
\* ------------------------------------------------------------------------

\* C30: the campaigns of the local page have pairwise distinct ids.
C30_LocalIdsDistinct ==
    \A i, j \in 1..Len(localCampaigns) :
        localCampaigns[i].id = localCampaigns[j].id => i = j

Init == OAuthInitial /\ CampaignInitial /\ ValidationInitial /\ LegacyInitial /\ AccountsInitial /\ UserListInitial /\ LocalInitial

SpecOAuth == Init /\ [][OAuthNext /\ UNCHANGED <<campaignVars, validationVars, legacyVars, accountsVars, userListVars, localVars>>]_vars

\* the direct redirect flow, where the redirect timer of a page, once set, fires
SpecDirectLive ==
    /\ Init
    /\ [][DirectNext /\ UNCHANGED <<campaignVars, validationVars, legacyVars, accountsVars, userListVars, localVars>>]_vars
    /\ \A p \in Pages :
          WF_vars(RedirectTimerFires(p) /\ UNCHANGED <<campaignVars, validationVars, legacyVars, accountsVars, userListVars, localVars>>)

SpecCampaign == Init /\ [][CampaignNext /\ UNCHANGED <<oauthVars, validationVars, legacyVars, accountsVars, userListVars, localVars>>]_vars

SpecValidation == Init /\ [][ValidationNext /\ UNCHANGED <<oauthVars, campaignVars, legacyVars, accountsVars, userListVars, localVars>>]_vars

SpecRelay == Init /\ [][RelayNext /\ UNCHANGED <<campaignVars, validationVars, accountsVars, userListVars, localVars>>]_vars

SpecAccounts ==
    Init /\ [][AccountsNext /\ UNCHANGED <<oauthVars, campaignVars, validationVars, legacyVars, userListVars, localVars>>]_vars

SpecUserList ==
    Init /\ [][UserListNext /\ UNCHANGED <<oauthVars, campaignVars, validationVars, legacyVars, accountsVars, localVars>>]_vars

SpecLocal ==
    Init /\ [][LocalNext /\ UNCHANGED <<oauthVars, campaignVars, validationVars, legacyVars, accountsVars, userListVars>>]_vars
====
